---- MODULE Spec2Model ----
(***************************************************************************)
(* The timesheet service: the Record Store (table 'Videos', one row per    *)
(* date_key) and the Blob Store (bucket 'Videos'), and the six HTTP        *)
(* handlers of server.js and of its earlier variant (src/unnamed/part_000) *)
(* that read and write them.                                               *)
(***************************************************************************)
EXTENDS Naturals, Integers, Sequences, FiniteSets, TLC

VARIABLES
    variant,  \* which of the two server files is running
    table,    \* the rows of TABLE, by date_key
    bucket,   \* the blobs of BUCKET: name -> content
    last,     \* the request answered last
    resp,     \* the answer it got
    nreq,     \* requests started so far
    procs,    \* the upsert requests in flight, each between its read and its write
    solo      \* per date, the row of the run that holds that date's upserts alone

vars == <<variant, table, bucket, last, resp, nreq, procs, solo>>

(* ------------------------------ bounds -------------------------------- *)

\* Requests handled in one behaviour.
MaxReq == 2
\* Fields one update body names.
MaxNamed == 1
\* Distinct clock readings new Date().toISOString() can give.
MaxStamp == 1
\* Upsert requests in flight at once.
MaxProcs == 2
\* Upsert requests started in one behaviour of the concurrent service.
MaxUpserts == 3

(* --------------------------- value domains ---------------------------- *)

Variants == {"server", "part_000"}
Dates == {"2026-01-01", "2026-01-02"}
Meals == 1..4
\* meal1..meal3 are columns of the table; meal4 lives in the note's extra.
ColMeals == 1..3
Fields == {"meal1", "meal2", "meal3", "meal4", "note"}
NoteTexts == {"", "hi"}
Stamps == 1..MaxStamp
\* No meal{N}_time key.
NoTime == 0
\* A column (or object key) that is null / undefined, and JS booleans as stored.
Col == {"null", "true", "false"}
Procs == 1..MaxProcs

MealField(N) == CASE N = 1 -> "meal1" [] N = 2 -> "meal2" [] N = 3 -> "meal3" [] OTHER -> "meal4"

JsBool(b) == IF b THEN "true" ELSE "false"

\* req.body: the keys it names ('k' in updates) and their values.
Updates ==
    { u \in [has : SUBSET Fields, meal : [Meals -> BOOLEAN], note : NoteTexts] :
        /\ Cardinality(u.has) <= MaxNamed
        /\ \A N \in Meals : MealField(N) \notin u.has => u.meal[N] = FALSE
        /\ "note" \notin u.has => u.note = "" }

NoUpdates == [has |-> {}, meal |-> [N \in Meals |-> FALSE], note |-> ""]

(* --------------------------- the note column -------------------------- *)

NoTimes == [N \in Meals |-> NoTime]

\* The text column `note`: null, a bare string, or the JSON text packNote wrote.
NullNote == [kind |-> "null", text |-> "", times |-> NoTimes, meal4 |-> "null"]

RawNote(s) == [kind |-> "raw", text |-> s, times |-> NoTimes, meal4 |-> "null"]

parseNote(raw) ==
    IF raw.kind = "null" \/ (raw.kind = "raw" /\ raw.text = "")
    THEN [text |-> "", times |-> NoTimes, meal4 |-> "null"]
    ELSE IF raw.kind = "json"
         THEN [text |-> raw.text, times |-> raw.times, meal4 |-> raw.meal4]
         ELSE [text |-> raw.text, times |-> NoTimes, meal4 |-> "null"]

packNote(text, times, meal4) ==
    [kind |-> "json", text |-> text, times |-> times, meal4 |-> meal4]

(* ------------------------------ the table ----------------------------- *)

NoRow == [present |-> FALSE, meal |-> [N \in ColMeals |-> "null"], note |-> NullNote]

EmptyTable == [d \in Dates |-> NoRow]

\* The read without its .eq('date_key', dateKey) filter: the first row there is.
SelectFirst(t, dateKey, readFail) ==
    IF readFail \/ \A d \in Dates : ~t[d].present THEN NullNote
    ELSE t[CHOOSE d \in Dates : t[d].present].note

\* supabase.from(TABLE).select('*').eq('date_key', dateKey).single(): the row,
\* or null when there is none or the query failed (the error is not looked at).
SelectSingle(t, dateKey, readFail) ==
    IF readFail \/ ~t[dateKey].present THEN NullNote ELSE t[dateKey].note

\* supabase.from(TABLE).upsert(row, { onConflict: 'date_key' }): the columns the
\* row object carries are written, the others keep their value (null on insert).
UpsertRow(t, row) ==
    [t EXCEPT ![row.date_key] =
        [present |-> TRUE,
         meal |-> [N \in ColMeals |->
                     IF MealField(N) \in row.cols THEN row.meal[N] ELSE t[row.date_key].meal[N]],
         note |-> IF "note" \in row.cols THEN row.note ELSE t[row.date_key].note]]

\* The row object POST /api/data/:dateKey of server.js builds from the body and
\* the note it read.
ServerRow(dateKey, updates, existing, stamp) ==
    LET p == parseNote(existing)
        times == [N \in Meals |->
                    IF MealField(N) \in updates.has
                    THEN (IF updates.meal[N] THEN stamp ELSE NoTime)
                    ELSE p.times[N]]
        meal4 == IF "meal4" \in updates.has THEN JsBool(updates.meal[4]) ELSE p.meal4
        noteText == IF "note" \in updates.has THEN updates.note ELSE p.text
    IN  [date_key |-> dateKey,
         cols |-> ((updates.has \cap {"meal1", "meal2", "meal3"}) \cup {"note"}),
         meal |-> [N \in ColMeals |-> JsBool(updates.meal[N])],
         note |-> packNote(noteText, times, meal4)]

\* The row object POST /api/data/:dateKey of the earlier variant builds.
Part000Row(dateKey, updates) ==
    [date_key |-> dateKey,
     cols |-> (updates.has \cap {"meal1", "meal2", "meal3", "note"}),
     meal |-> [N \in ColMeals |-> JsBool(updates.meal[N])],
     note |-> RawNote(updates.note)]

BuildRow(v, dateKey, updates, existing, stamp) ==
    IF v = "server" THEN ServerRow(dateKey, updates, existing, stamp)
    ELSE Part000Row(dateKey, updates)

(* ---------------------------- the bucket ------------------------------ *)

\* The :meal route parameter is any text; digits suffice here.
MealParams == {<<1>>, <<2>>, <<1, 0>>}
Exts == {".mov", ".mp4"}
OriginalNames == {"clip.mov", "clip.mp4", "clip"}
Contents == {"c1", "c2"}
MimeTypes == {[type |-> "video", subtype |-> "mp4"], [type |-> "text", subtype |-> "plain"]}
FileSizeLimit == 50 * 1024 * 1024
FileSizes == {1, FileSizeLimit + 1}
\* list('', { limit: 1000 })
ListLimit == 1000

\* A blob name `${dateKey}_meal${meal}${ext}`, kept in its three parts.
Names == [dateKey : Dates, meal : MealParams, ext : Exts]
NoName == [dateKey |-> "", meal |-> <<>>, ext |-> ""]
EmptyBucket == [n \in {} |-> "c1"]

\* path.extname(req.file.originalname)
PathExtname(originalname) ==
    CASE originalname = "clip.mov" -> ".mov"
      [] originalname = "clip.mp4" -> ".mp4"
      [] OTHER -> ""

Filename(dateKey, meal, originalname) ==
    [dateKey |-> dateKey, meal |-> meal,
     ext |-> IF PathExtname(originalname) = "" THEN ".mp4" ELSE PathExtname(originalname)]

\* f.name.startsWith(`${dateKey}_meal${meal}`): date keys have one length and an
\* extension begins with '.', so the prefix matches exactly when the dates agree
\* and the digits of the parameter begin the digits of the name.
StartsWith(name, dateKey, meal) ==
    /\ name.dateKey = dateKey
    /\ Len(meal) <= Len(name.meal)
    /\ SubSeq(name.meal, 1, Len(meal)) = meal

DateRank(d) == IF d = "2026-01-01" THEN 1 ELSE 2
ExtRank(e) == IF e = ".mov" THEN 1 ELSE 2

\* The characters of a name after the common "20", as numbers: the date, the
\* digits of the meal ('0' is 48), the '.' (46) and the extension.
NameKey(name) ==
    <<DateRank(name.dateKey)>> \o [i \in 1..Len(name.meal) |-> 48 + name.meal[i]]
        \o <<46, ExtRank(name.ext)>>

RECURSIVE LexLess(_, _)
LexLess(a, b) ==
    IF a = <<>> THEN b # <<>>
    ELSE IF b = <<>> THEN FALSE
    ELSE IF Head(a) # Head(b) THEN Head(a) < Head(b)
    ELSE LexLess(Tail(a), Tail(b))

RECURSIVE SortByName(_)
SortByName(S) ==
    IF S = {} THEN <<>>
    ELSE LET first == CHOOSE n \in S : \A m \in S \ {n} : LexLess(NameKey(n), NameKey(m))
         IN  <<first>> \o SortByName(S \ {first})

\* supabase.storage.from(BUCKET).list('', { limit: 1000 }): the names in name
\* order (the client's default sort), at most the limit; data is null on failure.
List(b, listFail) ==
    IF listFail THEN [ok |-> FALSE, files |-> <<>>]
    ELSE LET all == SortByName(DOMAIN b)
         IN  [ok |-> TRUE,
              files |-> IF Len(all) > ListLimit THEN SubSeq(all, 1, ListLimit) ELSE all]

\* supabase.storage.from(BUCKET).remove(names); a failed call removes nothing.
Remove(b, names, removeFail) ==
    IF removeFail THEN b ELSE [n \in (DOMAIN b) \ names |-> b[n]]

\* supabase.storage.from(BUCKET).upload(filename, buffer, { upsert: true })
Upload(b, filename, content) ==
    [n \in (DOMAIN b) \cup {filename} |-> IF n = filename THEN content ELSE b[n]]

SeqToSet(s) == {s[i] : i \in 1..Len(s)}

\* files?.find(f => f.name.startsWith(prefix))
FindFile(listing, dateKey, meal) ==
    LET hits == {i \in 1..Len(listing.files) : StartsWith(listing.files[i], dateKey, meal)}
    IN  IF hits = {} THEN NoName
        ELSE listing.files[CHOOSE i \in hits : \A j \in hits : i <= j]

\* files?.filter(f => f.name.startsWith(prefix)).map(f => f.name) || []
ToDelete(listing, dateKey, meal) ==
    {n \in SeqToSet(listing.files) : StartsWith(n, dateKey, meal)}

(* --------------------------- GET /api/data ----------------------------- *)

\* result[dateKey].videos: f.name.match(/^(\d{4}-\d{2}-\d{2})_meal(\d)/) keys a
\* file by the first digit after "_meal"; a later file replaces an earlier one.
Videos(listing, dateKey) ==
    LET idx == {i \in 1..Len(listing.files) : listing.files[i].dateKey = dateKey}
        digits == {listing.files[i].meal[1] : i \in idx}
    IN  [k \in digits |->
            listing.files[CHOOSE i \in idx :
                /\ listing.files[i].meal[1] = k
                /\ \A j \in idx : listing.files[j].meal[1] = k => j <= i]]

\* The object GET /api/data builds from one row.
RecordView(v, row) ==
    IF v = "server"
    THEN LET p == parseNote(row.note)
         IN  [meal |-> [N \in Meals |->
                          IF N \in ColMeals THEN row.meal[N]
                          ELSE (IF p.meal4 = "true" THEN "true" ELSE "false")],
              note |-> p.text,
              times |-> p.times]
    ELSE [meal |-> [N \in Meals |-> IF N \in ColMeals THEN row.meal[N] ELSE "null"],
          note |-> row.note.text,
          times |-> NoTimes]

BareView == [meal |-> [N \in Meals |-> "null"], note |-> "", times |-> NoTimes]

\* The mapping GET /api/data answers with: per date, nothing, the row's object, or
\* the bare object made for a date that has videos only.
DataResult(v, t, listing) ==
    [d \in Dates |->
        LET videos == Videos(listing, d)
        IN  IF t[d].present
            THEN [kind |-> "row", fields |-> RecordView(v, t[d]), videos |-> videos]
            ELSE IF DOMAIN videos # {}
                 THEN [kind |-> "bare", fields |-> BareView, videos |-> videos]
                 ELSE [kind |-> "none", fields |-> BareView, videos |-> videos]]

EmptyResult == DataResult("server", EmptyTable, List(EmptyBucket, FALSE))

(* ------------------------ requests and responses ---------------------- *)

\* The request answered last.
Request(op, dateKey, meal, updates, content) ==
    [op |-> op, dateKey |-> dateKey, meal |-> meal, updates |-> updates, content |-> content]

NoRequest == Request("none", "", <<>>, NoUpdates, "")

\* What a request is answered with. `kind` is the body: "ok" { ok: true },
\* "error" { error: message }, "data" the GET /api/data mapping, "redirect" a
\* redirect to the file's public URL, "html" the page express's own error
\* handler sends. `failed` names the storage calls of the request that reported
\* an error, `wrote` whether a row was written.
Response(status, kind, data, file, failed, wrote) ==
    [status |-> status, kind |-> kind, data |-> data, file |-> file,
     failed |-> failed, wrote |-> wrote]

NoResponse == Response(0, "none", EmptyResult, NoName, {}, FALSE)

\* The names of the failed calls among the ones a request made.
Failed(calls) == {c[1] : c \in {x \in calls : x[2]}}

(* ------------------------------ handlers ------------------------------ *)

\* app.get('/api/data')
GetData ==
    /\ nreq < MaxReq
    /\ \E selFail \in BOOLEAN, listFail \in BOOLEAN :
         resp' = IF selFail
                 THEN Response(500, "error", EmptyResult, NoName, {"select"}, FALSE)
                 ELSE Response(200, "data", DataResult(variant, table, List(bucket, listFail)),
                               NoName, Failed({<<"list", listFail>>}), FALSE)
    /\ last' = Request("getData", "", <<>>, NoUpdates, "")
    /\ nreq' = nreq + 1
    /\ UNCHANGED <<variant, table, bucket, procs, solo>>

\* app.post('/api/data/:dateKey'), start to answer, with no other request in
\* between (`solo` then is the table).
PostData ==
    /\ nreq < MaxReq
    /\ \E dateKey \in Dates, updates \in Updates, stamp \in Stamps,
          readFail \in (IF variant = "server" THEN BOOLEAN ELSE {FALSE}),
          writeFail \in BOOLEAN :
         LET existing == SelectSingle(table, dateKey, readFail)
             row == BuildRow(variant, dateKey, updates, existing, stamp)
             failed == Failed({<<"read", readFail>>, <<"write", writeFail>>})
         IN  /\ last' = Request("postData", dateKey, <<>>, updates, "")
             /\ IF writeFail
                THEN /\ table' = table
                     /\ resp' = Response(500, "error", EmptyResult, NoName, failed, FALSE)
                ELSE /\ table' = UpsertRow(table, row)
                     /\ resp' = Response(200, "ok", EmptyResult, NoName, failed, TRUE)
    /\ nreq' = nreq + 1
    /\ solo' = table'
    /\ UNCHANGED <<variant, bucket, procs>>

\* The multipart body of an upload: no `video` part, or one file.
Files == [present : {TRUE}, originalname : OriginalNames, mimetype : MimeTypes,
          size : FileSizes, content : Contents]
NoFile == [present |-> FALSE, originalname |-> "clip", mimetype |-> [type |-> "video", subtype |-> "mp4"],
           size |-> 1, content |-> ""]

\* upload.single('video'): multer's fileFilter and fileSize limit. "next" hands
\* the request to the handler; "error" hands an Error to express, which has no
\* error middleware here and answers itself.
Multer(file) ==
    IF ~file.present THEN "next"
    ELSE IF file.mimetype.type # "video" THEN "error"
    ELSE IF file.size > FileSizeLimit THEN "error"
    ELSE "next"

\* app.post('/api/video/:dateKey/:meal', upload.single('video'), ...)
PostVideo ==
    /\ nreq < MaxReq
    /\ \E dateKey \in Dates, meal \in MealParams, file \in Files \cup {NoFile},
          removeFail \in BOOLEAN, uploadFail \in BOOLEAN :
         LET filename == Filename(dateKey, meal, file.originalname)
             failed == Failed({<<"remove", removeFail>>, <<"upload", uploadFail>>})
         IN  /\ last' = Request("postVideo", dateKey, meal, NoUpdates, file.content)
             /\ IF Multer(file) = "error"
                THEN /\ bucket' = bucket
                     /\ resp' = Response(500, "html", EmptyResult, NoName, {}, FALSE)
                ELSE IF ~file.present
                THEN /\ bucket' = bucket
                     /\ resp' = Response(400, "error", EmptyResult, NoName, {}, FALSE)
                ELSE IF uploadFail
                THEN /\ bucket' = Remove(bucket, {filename}, removeFail)
                     /\ resp' = Response(500, "error", EmptyResult, NoName, failed, FALSE)
                ELSE /\ bucket' = Upload(Remove(bucket, {filename}, removeFail), filename,
                                         file.content)
                     /\ resp' = Response(200, "ok", EmptyResult, filename, failed, FALSE)
    /\ nreq' = nreq + 1
    /\ UNCHANGED <<variant, table, procs, solo>>

\* app.get('/api/video/:dateKey/:meal')
GetVideo ==
    /\ nreq < MaxReq
    /\ \E dateKey \in Dates, meal \in MealParams, listFail \in BOOLEAN :
         LET file == FindFile(List(bucket, listFail), dateKey, meal)
             failed == Failed({<<"list", listFail>>})
         IN  /\ last' = Request("getVideo", dateKey, meal, NoUpdates, "")
             /\ resp' = IF file = NoName
                        THEN Response(404, "error", EmptyResult, NoName, failed, FALSE)
                        ELSE Response(302, "redirect", EmptyResult, file, failed, FALSE)
    /\ nreq' = nreq + 1
    /\ UNCHANGED <<variant, table, bucket, procs, solo>>

\* app.delete('/api/video/:dateKey/:meal')
DeleteVideo ==
    /\ nreq < MaxReq
    /\ \E dateKey \in Dates, meal \in MealParams, listFail \in BOOLEAN, removeFail \in BOOLEAN :
         LET toDelete == ToDelete(List(bucket, listFail), dateKey, meal)
             failed == Failed({<<"list", listFail>>, <<"remove", removeFail /\ toDelete # {}>>})
         IN  /\ last' = Request("deleteVideo", dateKey, meal, NoUpdates, "")
             /\ bucket' = IF toDelete # {} THEN Remove(bucket, toDelete, removeFail) ELSE bucket
             /\ resp' = Response(200, "ok", EmptyResult, NoName, failed, FALSE)
    /\ nreq' = nreq + 1
    /\ UNCHANGED <<variant, table, procs, solo>>

\* supabase.from(TABLE).delete().neq('date_key', ''); a failed call deletes nothing.
DeleteRows(t, deleteFail) == IF deleteFail THEN t ELSE EmptyTable

\* app.delete('/api/data')
DeleteAll ==
    /\ nreq < MaxReq
    /\ \E deleteFail \in BOOLEAN, listFail \in BOOLEAN, removeFail \in BOOLEAN :
         LET listing == List(bucket, listFail)
             failed == Failed({<<"delete", deleteFail>>, <<"list", listFail>>,
                               <<"remove", removeFail /\ Len(listing.files) > 0>>})
         IN  /\ table' = DeleteRows(table, deleteFail)
             /\ bucket' = IF Len(listing.files) > 0
                          THEN Remove(bucket, SeqToSet(listing.files), removeFail)
                          ELSE bucket
             /\ resp' = Response(200, "ok", EmptyResult, NoName, failed, FALSE)
    /\ last' = Request("deleteAll", "", <<>>, NoUpdates, "")
    /\ nreq' = nreq + 1
    /\ solo' = table'
    /\ UNCHANGED <<variant, procs>>

(* ----------------------- the service, one request at a time ----------- *)

IdleProc == [pc |-> "idle", dateKey |-> "", updates |-> NoUpdates, existing |-> NullNote,
             soloExisting |-> NullNote, failed |-> {}]

\* Rows the earlier variant left in the table: what one of its upserts writes.
LegacyTables ==
    {EmptyTable} \cup
    {UpsertRow(EmptyTable, Part000Row(d, u)) :
        d \in Dates, u \in {x \in Updates : Cardinality(x.has) <= 1}}

Init ==
    /\ variant \in Variants
    /\ table \in (IF variant = "server" THEN LegacyTables ELSE {EmptyTable})
    /\ bucket = EmptyBucket
    /\ last = NoRequest
    /\ resp = NoResponse
    /\ nreq = 0
    /\ procs = [p \in Procs |-> IdleProc]
    /\ solo = table

Next ==
    \/ GetData
    \/ PostData
    \/ PostVideo
    \/ GetVideo
    \/ DeleteVideo
    \/ DeleteAll

Spec == Init /\ [][Next]_vars

(* ------------------- concurrent upserts of server.js ------------------ *)

\* The table a run holds in which only the upserts to dateKey were made.
SoloTable(dateKey) == [d \in Dates |-> IF d = dateKey THEN solo[d] ELSE NoRow]

\* app.post('/api/data/:dateKey') up to its first await: the request arrives and
\* the existing row is read. `solo` follows the same request in the run that
\* holds the upserts of its date alone.
UpsertRead(p, readFails) ==
    /\ procs[p].pc = "idle"
    /\ nreq < MaxUpserts
    /\ \E dateKey \in Dates, updates \in Updates, readFail \in readFails :
         procs' = [procs EXCEPT ![p] =
                     [pc |-> "write", dateKey |-> dateKey, updates |-> updates,
                      existing |-> SelectSingle(table, dateKey, readFail),
                      soloExisting |-> SelectSingle(SoloTable(dateKey), dateKey, readFail),
                      failed |-> Failed({<<"read", readFail>>})]]
    /\ nreq' = nreq + 1
    /\ UNCHANGED <<variant, table, bucket, last, resp, solo>>

\* app.post('/api/data/:dateKey') from the read to the answer: the row is built
\* from what was read and written. (`last` follows the one-at-a-time service.)
UpsertWrite(p, writeFails) ==
    /\ procs[p].pc = "write"
    /\ \E stamp \in Stamps, writeFail \in writeFails :
         LET me == procs[p]
             row == BuildRow(variant, me.dateKey, me.updates, me.existing, stamp)
             soloRow == BuildRow(variant, me.dateKey, me.updates, me.soloExisting, stamp)
             failed == me.failed \cup Failed({<<"write", writeFail>>})
         IN  IF writeFail
             THEN /\ UNCHANGED <<table, solo>>
                  /\ resp' = Response(500, "error", EmptyResult, NoName, failed, FALSE)
             ELSE /\ table' = UpsertRow(table, row)
                  /\ solo' = [solo EXCEPT ![me.dateKey] =
                                UpsertRow(SoloTable(me.dateKey), soloRow)[me.dateKey]]
                  /\ resp' = Response(200, "ok", EmptyResult, NoName, failed, TRUE)
    /\ procs' = [procs EXCEPT ![p] = IdleProc]
    /\ UNCHANGED <<variant, bucket, last, nreq>>

InitConc ==
    /\ variant = "server"
    /\ table = EmptyTable
    /\ bucket = EmptyBucket
    /\ last = NoRequest
    /\ resp = NoResponse
    /\ nreq = 0
    /\ procs = [p \in Procs |-> IdleProc]
    /\ solo = table

\* The storage calls may fail.
NextConc ==
    \E p \in Procs :
        \/ UpsertRead(p, BOOLEAN)
        \/ UpsertWrite(p, BOOLEAN)

SpecConc == InitConc /\ [][NextConc]_vars

\* Every storage call succeeds.
NextRace ==
    \E p \in Procs :
        \/ UpsertRead(p, {FALSE})
        \/ UpsertWrite(p, {FALSE})

SpecRace == InitConc /\ [][NextRace]_vars

(* ------------------------------ the claims ---------------------------- *)

\* What GET /api/data shows for a date when its storage calls succeed.
Shown(dateKey) == DataResult(variant, table, List(bucket, FALSE))[dateKey]

\* C1: in every state of the Record Store, under any interleaving of upserts,
\* every stored record has a meal{N}_time exactly when its meal{N} flag is true.
C1_TimeIffFlag ==
    \A d \in Dates : table[d].present =>
        \A N \in Meals :
            (RecordView(variant, table[d]).times[N] # NoTime)
                <=> (RecordView(variant, table[d]).meal[N] = "true")

\* C2: after any sequence of uploads the bucket holds at most one blob per
\* (date_key, meal) pair.
C2_OneBlobPerPair ==
    \A n1 \in DOMAIN bucket, n2 \in DOMAIN bucket :
        (n1.dateKey = n2.dateKey /\ n1.meal = n2.meal) => n1 = n2

\* C3: right after a successful upload for (date_key, meal), GET /api/video for
\* that pair resolves to the blob just uploaded.
C3_FetchAfterUpload ==
    (last.op = "postVideo" /\ resp.status = 200) =>
        LET file == FindFile(List(bucket, FALSE), last.dateKey, last.meal)
        IN  file # NoName /\ bucket[file] = last.content

\* C4: a request one of whose storage calls failed is answered with an error, and
\* an upsert whose read failed writes nothing.
C4_FailureSurfaces ==
    /\ resp.failed # {} => resp.status >= 400
    /\ "read" \in resp.failed => ~resp.wrote

\* C5: right after a DELETE /api/data answered { ok: true }, GET /api/data gives
\* the empty mapping and the bucket holds no blob.
C5_ClearedAfterDeleteAll ==
    (last.op = "deleteAll" /\ resp.kind = "ok") =>
        /\ bucket = EmptyBucket
        /\ \A listFail \in BOOLEAN :
             DataResult(variant, table, List(bucket, listFail)) = EmptyResult

\* C6: every answer that is not a success is a JSON body { error: message } with
\* a 4xx/5xx status.
C6_ErrorsAreJson ==
    resp.kind \notin {"none", "ok", "data", "redirect"} =>
        (resp.kind = "error" /\ resp.status \in 400..599)

\* C7: under every interleaving of the read and write steps of concurrent
\* upserts, the record of each date is the one the upserts to that date give
\* when they run alone.
C7_DatesDoNotInterfere == table = solo

\* C7, its case: an upsert is between its read and its write, it read its date
\* when that date had no row, and since then rows were written for its date and
\* for another one.
C7_Witness ==
    \E p \in Procs :
        /\ procs[p].pc = "write"
        /\ "read" \notin procs[p].failed
        /\ procs[p].existing = NullNote
        /\ table[procs[p].dateKey].present
        /\ \E d \in Dates \ {procs[p].dateKey} : table[d].present

\* C8: DELETE /api/video for a pair that has no blob leaves the bucket as it was
\* and answers { ok: true }.
C8_DeleteMissingIsNoOp ==
    [][(/\ nreq' = nreq + 1
        /\ last'.op = "deleteVideo"
        /\ \A n \in DOMAIN bucket :
             ~(n.dateKey = last'.dateKey /\ n.meal = last'.meal))
       => (bucket' = bucket /\ resp'.status = 200 /\ resp'.kind = "ok")]_vars

\* C9: right after an upsert that set meal{N} true, GET /api/data shows meal{N}
\* true with a meal{N}_time; right after one that set it false, it shows meal{N}
\* false and no meal{N}_time.
C9_FlagAndTimeReadBack ==
    (last.op = "postData" /\ resp.status = 200) =>
        \A N \in Meals : MealField(N) \in last.updates.has =>
            IF last.updates.meal[N]
            THEN /\ Shown(last.dateKey).fields.meal[N] = "true"
                 /\ Shown(last.dateKey).fields.times[N] # NoTime
            ELSE /\ Shown(last.dateKey).fields.meal[N] # "true"
                 /\ Shown(last.dateKey).fields.times[N] = NoTime

\* C10: an upsert to an existing record leaves every meal flag, meal time and
\* the note it does not name reading back as before, and a note it names reads
\* back as given.
C10_UpsertMerges ==
    [][(/\ nreq' = nreq + 1
        /\ last'.op = "postData"
        /\ resp'.status = 200
        /\ table[last'.dateKey].present)
       => LET before == RecordView(variant, table[last'.dateKey])
              after == RecordView(variant, table'[last'.dateKey])
              named == last'.updates.has
          IN  /\ \A N \in Meals : MealField(N) \notin named =>
                    /\ after.meal[N] = before.meal[N]
                    /\ after.times[N] = before.times[N]
              /\ "note" \notin named => after.note = before.note
              /\ "note" \in named => after.note = last'.updates.note]_vars

====
